---- MODULE Spec2Model ----
(***************************************************************************)
(* GoveeController: the Govee API client (src/unnamed/part_001, lines      *)
(* 1-300) with its process-wide device cache, and the Mega dial action     *)
(* (src/unnamed/part_001, lines 302-520) with its debounced brightness     *)
(* update; the scene actions (src/src/actions/snapshot-scene.ts and        *)
(* src/unnamed/part_002) with their listings for the property inspector;  *)
(* and getColorFromHex.                                                    *)
(*                                                                         *)
(* Every asynchronous client call is a task: a record with the operation,  *)
(* its arguments and its position (pc).  A task is suspended exactly where *)
(* the code awaits: before a request is sent (await this.getHeaders()) and *)
(* while its response is outstanding.  Between two awaits a step is atomic *)
(* (one JavaScript event loop).                                            *)
(***************************************************************************)
EXTENDS Integers, Sequences, FiniteSets, TLC

\* An optional value: absent (undefined) or present.
None == <<>>
Some(x) == <<x>>

-----------------------------------------------------------------------------
\* Bounds of the model.

\* Client calls that may be in flight at once.
MaxTasks == 2
\* Dial events (rotations, presses and touch taps) in one behaviour.
MaxRotations == 3
\* The debounce window, in ticks of the clock.
DebounceTicks == 2
\* The longest color string typed.
MaxHexLen == 7

-----------------------------------------------------------------------------
\* Capability identifiers (instance, type) used by the client.

PowerSwitch == [instance |-> "powerSwitch", type |-> "devices.capabilities.on_off"]
Brightness == [instance |-> "brightness", type |-> "devices.capabilities.range"]
ColorRgb == [instance |-> "colorRgb", type |-> "devices.capabilities.color_setting"]
ColorTemperatureK == [instance |-> "colorTemperatureK", type |-> "devices.capabilities.color_setting"]
LightSceneId == [instance |-> "lightScene", type |-> "devices.capabilities.dynamic_scene"]
SnapshotId == [instance |-> "snapshot", type |-> "devices.capabilities.dynamic_scene"]
DiySceneId == [instance |-> "diyScene", type |-> "devices.capabilities.dynamic_scene"]
NoCapability == [instance |-> "", type |-> ""]

\* A capability as it appears in a device's capability list or a response:
\* state is optional (absent: not reported), options are the selectable scenes.
Capability(ident, state, options) ==
    [instance |-> ident.instance, type |-> ident.type, state |-> state, options |-> options]

SceneOptions == << [name |-> "Sunset", value |-> 1], [name |-> "Party", value |-> 2] >>

\* The devices of the account: d1 is a light, d2 a socket with a power switch only.
NoId == "undefined"
DeviceIds == {"d1", "d2"}

Light ==
    [device |-> "d1", sku |-> "H6159",
     capabilities |-> << Capability(PowerSwitch, None, <<>>),
                         Capability(Brightness, None, <<>>),
                         Capability(ColorRgb, None, <<>>),
                         Capability(ColorTemperatureK, None, <<>>),
                         Capability(LightSceneId, None, SceneOptions),
                         Capability(SnapshotId, None, SceneOptions) >>]
\* The light as a unit without snapshots reports itself.
Bare ==
    [device |-> "d1", sku |-> "H6159",
     capabilities |-> << Capability(PowerSwitch, None, <<>>),
                         Capability(SnapshotId, None, <<>>) >>]
Socket ==
    [device |-> "d2", sku |-> "H5080",
     capabilities |-> << Capability(PowerSwitch, None, <<>>) >>]

MetadataOf(id) == IF id = "d1" THEN Light ELSE Socket

\* type Device = { device, sku }
DeviceOf(id) == [device |-> id, sku |-> MetadataOf(id).sku]
NoDevice == [device |-> NoId, sku |-> ""]

\* What the remote may answer to GET /user/devices (res.data.data).
Inventories == { << Light >>, << Light, Socket >> }

\* The same, for the requests of the scene actions.
Catalogues == Inventories \cup { << Bare, Socket >> }

\* What the remote may answer to POST /device/state (payload.capabilities).
StatePayloads ==
    { << >>,
      << Capability(PowerSwitch, Some(0), <<>>) >>,
      << Capability(PowerSwitch, Some(1), <<>>) >>,
      << Capability(PowerSwitch, None, <<>>) >>,
      << Capability(Brightness, Some(50), <<>>), Capability(PowerSwitch, Some(1), <<>>) >>,
      << Capability(Brightness, Some(50), <<>>) >> }

\* What the remote may answer to POST /device/scenes (payload.capabilities).
ScenePayloads ==
    { << >>,
      << Capability(LightSceneId, None, SceneOptions) >>,
      << Capability(Brightness, None, <<>>), Capability(LightSceneId, None, SceneOptions) >> }

\* What the remote may answer to the listing of DIY scenes.
DiyPayloads ==
    { << >>,
      << Capability(DiySceneId, None, <<>>) >>,
      << Capability(DiySceneId, None, SceneOptions) >> }

\* The response envelope: HTTP status and the optional code field of the body.
\* (For a status outside 2xx axios rejects the request by itself; the caller
\* sees an error either way, and validate is what the client adds.)
Envelope(status, code) == [status |-> status, code |-> code]
Envelopes ==
    { Envelope(200, None), Envelope(200, Some(200)), Envelope(200, Some(400)),
      Envelope(500, None) }

\* The API keys the user may enter in the global settings.
ApiKeys == {"key1", "key2"}

\* The calls the actions make on the client: operation, device (by id) and value.
Call(op, id, value) == [op |-> op, id |-> id, value |-> value]
Calls ==
    { Call("getDevices", NoId, 0) }
    \cup { Call(op, id, 0) : op \in {"getDevice", "getDeviceOrThrow", "getLightScenes"},
                             id \in DeviceIds \cup {NoId} }
    \cup { Call("setLightScene", id, 2) : id \in DeviceIds \cup {NoId} }
    \cup { Call(op, id, 0) : op \in {"getDeviceState", "togglePowerState", "turnOn", "turnOff"},
                             id \in DeviceIds }
    \cup { Call("setBrightness", id, 50) : id \in DeviceIds }
    \cup { Call("setColor", id, 16711680) : id \in DeviceIds }
    \cup { Call("setColorTemperature", id, 4000) : id \in DeviceIds }

\* The operations that look the device up in the inventory by its id.
IdOps == {"getDevice", "getDeviceOrThrow", "getLightScenes", "setLightScene"}
\* The calls of the inventory alone.
CacheCalls == { c \in Calls : c.op = "getDevices" }
\* Whether the call runs getDevices().
UsesDevices(c) == c.op = "getDevices" \/ (c.op \in IdOps /\ c.id # NoId)

-----------------------------------------------------------------------------
VARIABLES
    devicesCache,   \* let devicesCache: DeviceMetadata[] | undefined
    tasks,          \* the client calls: task -> record
    sinceClear,     \* "start", "cleared" (clearCache() ran and no getDevices()
                    \* call has started since) or "called"
    failed,         \* some response did not satisfy the envelope contract
    accepted,       \* device lists of the inventory responses that satisfied it
    settings,       \* the persisted settings of each Mega dial (ev.payload.settings)
    feedback,       \* the touchscreen feedback of each dial
    rotations,      \* onDialRotate handlers suspended at their awaits, oldest first
    timers,         \* the debounce entries: key -> pending action and time left
    updates,        \* the debounced actions that ran, each a setMegaValue call
    rotated,        \* number of dial rotations so far
    bursts,         \* per key: what has been scheduled since the last run
    toggles,        \* the dial presses and touch taps: each a togglePowerState call
    commands,       \* the control commands the Mega handlers have sent, in order
    globalSettings, \* the global settings the host holds ({ apiKey })
    handler,        \* the key press or property inspector request being handled
    hex,            \* the color string typed into the property inspector
    color           \* what getColorFromHex made of it

clientVars == << devicesCache, tasks, sinceClear, failed, accepted >>
megaVars == << settings, feedback, rotations, timers, updates, rotated, bursts, toggles,
              commands >>
colorVars == << hex, color >>
vars == << devicesCache, tasks, sinceClear, failed, accepted,
           settings, feedback, rotations, timers, updates, rotated, bursts, toggles,
           commands, globalSettings, handler, hex, color >>

\* What the client, and what the Mega dial, leaves alone.
outsideClient == << megaVars, globalSettings, handler, colorVars >>
outsideMega == << clientVars, globalSettings, handler, colorVars >>

Tasks == 1..MaxTasks

IdleTask ==
    [op |-> "none", pc |-> "idle", id |-> NoId, value |-> 0,
     device |-> NoDevice, capability |-> NoCapability,
     first |-> FALSE, afterClear |-> FALSE, cleared |-> FALSE,
     got |-> None, devices |-> None,
     resps |-> <<>>, reqs |-> <<>>, state |-> None,
     err |-> "", ret |-> None,
     headers |-> <<>>, held |-> <<>>, scenes |-> None]

Active(t) == tasks[t].pc \notin {"idle", "done"}

-----------------------------------------------------------------------------
\* validate without the check of the HTTP status.
ValidateCodeOnly(response) == ~(response.code # None /\ response.code[1] # 200)

\* validate without the check of the body's code field.
ValidateStatusOnly(response) == ~(response.status # 200)

\* GoveeClient.validate: TRUE when the response passes (nothing is thrown).
Validate(response) ==
    /\ ~(response.status # 200)
    /\ ~(response.code # None /\ response.code[1] # 200)

\* A copy that stops one element short.
ArrayFromShort(data) == [i \in 1..(Len(data) - 1) |-> data[i]]

\* Array.from(res.data.data): a new array with the same elements.
ArrayFrom(data) == [i \in 1..Len(data) |-> data[i]]

\* devicesCache = Array.from(res.data.data): the last response wins.
StoreDevicesOverwrite(cache, data) == Some(ArrayFrom(data))

\* devicesCache ??= Array.from(res.data.data)
StoreDevices(cache, data) == IF cache # None THEN cache ELSE Some(ArrayFrom(data))

\* A clearCache() that leaves the cache as it is.
ClearedCacheKept(cache) == cache

\* clearCache(): devicesCache = undefined
ClearedCache(cache) == None

\* A find whose predicate is true of every device.
FindDeviceAny(devices, deviceId) ==
    IF Len(devices) = 0 THEN None ELSE Some(devices[1])

\* devices.find(({ device }) => device === deviceId)
FindDevice(devices, deviceId) ==
    LET hits == { i \in 1..Len(devices) : devices[i].device = deviceId }
    IN IF hits = {} THEN None
       ELSE Some(devices[CHOOSE i \in hits : \A j \in hits : i <= j])

\* The find without its c.state !== undefined.
FindPowerCapabilityStateless(capabilities) ==
    LET hits == { i \in 1..Len(capabilities) :
                    /\ capabilities[i].instance = "powerSwitch"
                    /\ capabilities[i].type = "devices.capabilities.on_off" }
    IN IF hits = {} THEN None
       ELSE Some(capabilities[CHOOSE i \in hits : \A j \in hits : i <= j])

\* capabilities.find(c => c.instance === "powerSwitch" && c.type === ...on_off
\*                        && c.state !== undefined)
FindPowerCapability(capabilities) ==
    LET hits == { i \in 1..Len(capabilities) :
                    /\ capabilities[i].instance = "powerSwitch"
                    /\ capabilities[i].type = "devices.capabilities.on_off"
                    /\ capabilities[i].state # None }
    IN IF hits = {} THEN None
       ELSE Some(capabilities[CHOOSE i \in hits : \A j \in hits : i <= j])

\* The current value sent back unchanged.
ToggledValueSame(value) == value

\* 1 - capability.state.value
ToggledValue(value) == 1 - value

\* Headers made once, from the settings the plugin started with.
GetHeadersInitial(global) ==
    [contentType |-> "application/json", goveeApiKey |-> "key1"]

\* getHeaders(): const { apiKey } = await streamDeck.settings.getGlobalSettings()
GetHeaders(global) ==
    [contentType |-> "application/json", goveeApiKey |-> global.apiKey]

\* A request as the remote sees it.
Request(endpoint, device, capability, value) ==
    [endpoint |-> endpoint, device |-> device, capability |-> capability, value |-> value]

\* The call ends: it throws error, or returns value to its caller.
Done(task) == [task EXCEPT !.pc = "done"]
Throw(task, error) == [Done(task) EXCEPT !.err = error]
Return(task, value) == [Done(task) EXCEPT !.ret = Some(value)]

\* this.control(device, capability, value), up to its first await.
Control(task, device, capability, value) ==
    [task EXCEPT !.pc = "controlHeaders", !.device = device,
                 !.capability = capability, !.value = value]

\* The device as the requests carry it.  (getLightScenes and setLightScene pass
\* the DeviceMetadata they found, whose other fields ride along unused.)
DeviceIn(metadata) == [device |-> metadata.device, sku |-> metadata.sku]

\* getDeviceOrThrow(deviceId) once getDevice(deviceId) has answered found: the
\* device, or an error when it is absent.
GetDeviceOrThrow(task, found) ==
    IF found = None THEN Throw(task, "Device not found.")
    ELSE Return(task, found[1])

\* The rest of an operation once getDevice(deviceId) has answered found.
AfterGetDevice(task, found) ==
    CASE task.op = "getDevice" -> Return(task, found)
      [] task.op = "getDeviceOrThrow" -> GetDeviceOrThrow(task, found)
      [] task.op = "getLightScenes" ->
            IF found = None THEN Throw(task, "Device not found.")
            ELSE [task EXCEPT !.pc = "scenesHeaders", !.device = DeviceIn(found[1])]
      [] task.op = "setLightScene" ->
            IF found = None THEN Throw(task, "Device not found.")
            ELSE Control(task, DeviceIn(found[1]), LightSceneId, task.value)

\* The rest of an operation once getDevices() has returned devices.
AfterDevices(task, devices) ==
    LET t == [task EXCEPT !.devices = Some(devices)]
    IN IF t.op = "getDevices" THEN Return(t, devices)
       ELSE AfterGetDevice(t, FindDevice(devices, t.id))

\* togglePowerState once getDeviceState(device) has returned capabilities.
\* (Reading capability.state.value of a capability without a state would be a
\* TypeError; the find rules that out.)
AfterState(task, capabilities) ==
    LET t == [task EXCEPT !.state = Some(capabilities)]
        capability == FindPowerCapability(capabilities)
    IN IF capability = None
       THEN Throw(t, "Device does not support switching power state")
       ELSE IF capability[1].state = None
       THEN Throw(t, "TypeError")
       ELSE Control(t, t.device, PowerSwitch, ToggledValue(capability[1].state[1]))

\* getLightScenes once the scene listing has passed validation:
\* const [capability] = res.data.payload.capabilities
AfterScenes(task, capabilities) ==
    LET t == [task EXCEPT !.scenes = Some(capabilities)]
    IN IF /\ Len(capabilities) > 0
          /\ capabilities[1].instance = "lightScene"
          /\ capabilities[1].type = "devices.capabilities.dynamic_scene"
       THEN Return(t, capabilities[1].options)
       ELSE Throw(t, "Device does not support light scenes")

\* getDIYScenes(device) once its listing has passed validation: the options of
\* the diyScene capability of the response, as getLightScenes does for lightScene.
AfterDIYScenes(task, capabilities) ==
    LET t == [task EXCEPT !.scenes = Some(capabilities)]
    IN IF /\ Len(capabilities) > 0
          /\ capabilities[1].instance = DiySceneId.instance
          /\ capabilities[1].type = DiySceneId.type
       THEN Return(t, capabilities[1].options)
       ELSE Throw(t, "Device does not support DIY scenes")

\* The first synchronous part of a call, up to its first await.
Begin(task, c) ==
    CASE c.op = "getDevices" \/ c.op \in IdOps ->
            IF c.op \in IdOps /\ c.id = NoId THEN AfterGetDevice(task, None)
            ELSE IF devicesCache # None THEN AfterDevices(task, devicesCache[1])
            ELSE [task EXCEPT !.pc = "devicesHeaders"]
      [] c.op \in {"getDeviceState", "togglePowerState"} ->
            [task EXCEPT !.pc = "stateHeaders", !.device = DeviceOf(c.id)]
      [] c.op = "setBrightness" -> Control(task, DeviceOf(c.id), Brightness, c.value)
      [] c.op = "setColor" -> Control(task, DeviceOf(c.id), ColorRgb, c.value)
      [] c.op = "setColorTemperature" ->
            Control(task, DeviceOf(c.id), ColorTemperatureK, c.value)
      [] c.op = "turnOff" -> Control(task, DeviceOf(c.id), PowerSwitch, 0)
      [] c.op = "turnOn" -> Control(task, DeviceOf(c.id), PowerSwitch, 1)

-----------------------------------------------------------------------------
\* The envelope contract of the API: status 200 and, when present, code 200.
EnvelopeOk(e) == e.status = 200 /\ (e.code = None \/ e.code = Some(200))

\* The Mega dials on the device, each set up for one device.
Dials == {"dial1", "dial2"}
DialDevice(a) == IF a = "dial1" THEN "d1" ELSE "d2"

\* const defaultMegaValue = 25
defaultMegaValue == 25

\* settings.megaValue ?? defaultMegaValue
MegaValueOf(s) == IF s.megaValue = None THEN defaultMegaValue ELSE s.megaValue[1]

\* Mega.setFeedback(action, settings, opacity): opacity in tenths.
Feedback(s, opacity) == [opacity |-> opacity, value |-> MegaValueOf(s)]

\* What is remembered of the schedule calls of a key: the calls since the last
\* run or cancel, the value and number (serial) of the last call, the ticks
\* waited since, the bursts started, and the serials of the calls whose entry
\* was pending when a press or tap of the key began.
\* No key press or request is being handled.
IdleHandler ==
    [kind |-> "none", pc |-> "idle", deviceId |-> NoId, value |-> None,
     isRefresh |-> FALSE, cached |-> FALSE, before |-> None,
     glyph |-> "none", items |-> None]

NoBurst == [calls |-> 0, last |-> 0, waited |-> 0, started |-> 0,
            serial |-> 0, cancelled |-> {}]

\* The state after construction, with the brightness megaValue in the persisted
\* settings of the dials.
Start(megaValue) ==
    /\ devicesCache = None
    /\ tasks = [t \in Tasks |-> IdleTask]
    /\ sinceClear = "start"
    /\ failed = FALSE
    /\ accepted = {}
    /\ settings = [a \in Dials |-> [megaValue |-> megaValue, deviceId |-> DialDevice(a)]]
    /\ feedback = [a \in Dials |-> Feedback(settings[a], 2)]
    /\ rotations = [a \in Dials |-> <<>>]
    /\ timers = [a \in Dials |-> None]
    /\ updates = <<>>
    /\ rotated = 0
    /\ bursts = [a \in Dials |-> NoBurst]
    /\ toggles = <<>>
    /\ commands = <<>>
    /\ globalSettings = [apiKey |-> "key1"]
    /\ handler = IdleHandler
    /\ hex = <<>>
    /\ color = None

\* No brightness has been persisted yet.
Init == Start(None)

\* The call c as it starts.
NewTask(c) ==
    [IdleTask EXCEPT !.op = c.op, !.id = c.id, !.value = c.value,
                     !.first = UsesDevices(c) /\ sinceClear # "called",
                     !.afterClear = UsesDevices(c) /\ sinceClear = "cleared"]

\* An action (a key press, the property inspector) calls the client.
Invoke(t, c) ==
    /\ tasks[t].pc \in {"idle", "done"}
    /\ tasks' = [tasks EXCEPT ![t] = Begin(NewTask(c), c)]
    /\ sinceClear' = IF UsesDevices(c) THEN "called" ELSE sinceClear
    /\ UNCHANGED << devicesCache, failed, accepted >>
    /\ UNCHANGED outsideClient

\* goveeClient.clearCache()
ClearCache ==
    /\ devicesCache' = ClearedCache(devicesCache)
    /\ sinceClear' = "cleared"
    /\ tasks' = [t \in Tasks |->
                    IF tasks[t].pc = "idle" THEN tasks[t]
                    ELSE [tasks[t] EXCEPT !.cleared = TRUE]]
    /\ UNCHANGED << failed, accepted >>
    /\ UNCHANGED outsideClient

\* headers: await this.getHeaders() has answered and the request goes out.
Send(t, pc, next, request) ==
    /\ tasks[t].pc = pc
    /\ tasks' = [tasks EXCEPT ![t] =
            [@ EXCEPT !.pc = next, !.reqs = Append(@, request),
                      !.headers = Append(@, GetHeaders(globalSettings)),
                      !.held = Append(@, globalSettings.apiKey)]]
    /\ UNCHANGED << devicesCache, sinceClear, failed, accepted >>
    /\ UNCHANGED outsideClient

SendDevices(t) ==
    Send(t, "devicesHeaders", "devicesWait",
         Request("/user/devices", NoDevice, NoCapability, 0))

SendState(t) ==
    Send(t, "stateHeaders", "stateWait",
         Request("/device/state", tasks[t].device, NoCapability, 0))

SendScenes(t) ==
    Send(t, "scenesHeaders", "scenesWait",
         Request("/device/scenes", tasks[t].device, NoCapability, 0))

SendControl(t) ==
    Send(t, "controlHeaders", "controlWait",
         Request("/device/control", tasks[t].device, tasks[t].capability, tasks[t].value))

\* getDevices() resumes with the response to GET /user/devices.
ReceiveDevices(t, e, data) ==
    /\ tasks[t].pc = "devicesWait"
    /\ LET task == [tasks[t] EXCEPT !.resps = Append(@, e)]
           cache == StoreDevices(devicesCache, data)
       IN IF Validate(e)
          THEN /\ devicesCache' = cache
               /\ tasks' = [tasks EXCEPT ![t] =
                                AfterDevices([task EXCEPT !.got = Some(data)], cache[1])]
          ELSE /\ tasks' = [tasks EXCEPT ![t] = Throw(task, "Failed to get Govee devices.")]
               /\ UNCHANGED devicesCache
    /\ failed' = (failed \/ ~EnvelopeOk(e))
    /\ accepted' = IF EnvelopeOk(e) THEN accepted \cup {data} ELSE accepted
    /\ UNCHANGED sinceClear
    /\ UNCHANGED outsideClient

\* getDeviceState() resumes with the response to POST /device/state.
ReceiveState(t, e, capabilities) ==
    /\ tasks[t].pc = "stateWait"
    /\ LET task == [tasks[t] EXCEPT !.resps = Append(@, e)]
       IN tasks' = [tasks EXCEPT ![t] =
            IF ~Validate(e) THEN Throw(task, "Failed to get device state.")
            ELSE IF task.op = "getDeviceState" THEN Return(task, capabilities)
            ELSE AfterState(task, capabilities)]
    /\ failed' = (failed \/ ~EnvelopeOk(e))
    /\ UNCHANGED << devicesCache, sinceClear, accepted >>
    /\ UNCHANGED outsideClient

\* getLightScenes() resumes with the response to POST /device/scenes.
ReceiveScenes(t, e, capabilities) ==
    /\ tasks[t].pc = "scenesWait"
    /\ LET task == [tasks[t] EXCEPT !.resps = Append(@, e)]
       IN tasks' = [tasks EXCEPT ![t] =
            IF ~Validate(e) THEN Throw(task, "Failed to get light scenes.")
            ELSE IF task.op = "getDIYScenes" THEN AfterDIYScenes(task, capabilities)
            ELSE AfterScenes(task, capabilities)]
    /\ failed' = (failed \/ ~EnvelopeOk(e))
    /\ UNCHANGED << devicesCache, sinceClear, accepted >>
    /\ UNCHANGED outsideClient

\* control() resumes with the response to POST /device/control.
ReceiveControl(t, e) ==
    /\ tasks[t].pc = "controlWait"
    /\ LET task == [tasks[t] EXCEPT !.resps = Append(@, e)]
       IN tasks' = [tasks EXCEPT ![t] =
            IF ~Validate(e) THEN Throw(task, "Failed to control device.")
            ELSE Return(task, None)]
    /\ failed' = (failed \/ ~EnvelopeOk(e))
    /\ UNCHANGED << devicesCache, sinceClear, accepted >>
    /\ UNCHANGED outsideClient

\* The user enters another API key in the global settings.
SetApiKey(key) ==
    /\ key # globalSettings.apiKey
    /\ globalSettings' = [globalSettings EXCEPT !.apiKey = key]
    /\ UNCHANGED << clientVars, megaVars, handler, colorVars >>

\* One call at a time: the next one starts when the last has ended, and the
\* cache is cleared between calls.
InvokeAlone(c) == Invoke(1, c)
ClearCacheIdle == (\A t \in Tasks : ~Active(t)) /\ ClearCache

\* The client, its operations called one after the other.
Next ==
    \/ \E c \in Calls : InvokeAlone(c)
    \/ ClearCacheIdle
    \/ \E key \in ApiKeys : SetApiKey(key)
    \/ \E t \in Tasks : SendDevices(t)
    \/ \E t \in Tasks : SendState(t)
    \/ \E t \in Tasks : SendScenes(t)
    \/ \E t \in Tasks : SendControl(t)
    \/ \E t \in Tasks, e \in Envelopes, data \in Inventories : ReceiveDevices(t, e, data)
    \/ \E t \in Tasks, e \in Envelopes, c \in StatePayloads : ReceiveState(t, e, c)
    \/ \E t \in Tasks, e \in Envelopes, c \in ScenePayloads : ReceiveScenes(t, e, c)
    \/ \E t \in Tasks, e \in Envelopes : ReceiveControl(t, e)

Spec == Init /\ [][Next]_vars

\* The device cache under overlapping getDevices() calls and clearCache() at
\* any moment.
CacheNext ==
    \/ \E t \in Tasks, c \in CacheCalls : Invoke(t, c)
    \/ ClearCache
    \/ \E t \in Tasks : SendDevices(t)
    \/ \E t \in Tasks, e \in Envelopes, data \in Inventories : ReceiveDevices(t, e, data)

CacheSpec == Init /\ [][CacheNext]_vars

-----------------------------------------------------------------------------
\* The scene actions (SnapshotScene, DIYScene) and the key of the Mega action:
\* handlers that await the client.  One event is handled at a time; task 1 is
\* the client call the handler awaits, task 2 the one it started without
\* awaiting it.

\* The names of the scenes in the order of String.prototype.localeCompare.
NamesAscending == << "Party", "Sunset" >>
NameRank(name) == CHOOSE i \in 1..Len(NamesAscending) : NamesAscending[i] = name

\* x.name.localeCompare(y.name)
LocaleCompare(x, y) == NameRank(x.name) - NameRank(y.name)

\* scenes.sort((x, y) => x.name.localeCompare(y.name)): a stable sort.
RECURSIVE SortByName(_)
SortByName(scenes) ==
    IF scenes = <<>> THEN <<>>
    ELSE LET last == scenes[Len(scenes)]
             rest == SortByName(SubSeq(scenes, 1, Len(scenes) - 1))
         IN SelectSeq(rest, LAMBDA s : LocaleCompare(s, last) <= 0)
                \o << last >>
                \o SelectSeq(rest, LAMBDA s : LocaleCompare(s, last) > 0)

\* device.capabilities
\*   .filter(c => c.instance === "snapshot" && c.type === "...dynamic_scene")
\*   .flatMap(c => c.parameters.options)
RECURSIVE SnapshotScenesOf(_)
SnapshotScenesOf(capabilities) ==
    IF capabilities = <<>> THEN <<>>
    ELSE (IF /\ Head(capabilities).instance = "snapshot"
             /\ Head(capabilities).type = "devices.capabilities.dynamic_scene"
          THEN Head(capabilities).options ELSE <<>>)
            \o SnapshotScenesOf(Tail(capabilities))

\* { value: s.value.toString(), label: s.name }
Item(s) == [value |-> ToString(s.value), label |-> s.name, disabled |-> FALSE]
MapItems(scenes) == [i \in 1..Len(scenes) |-> Item(scenes[i])]

\* A placeholder that can be selected.
PlaceholderEnabled(label) == [value |-> "", label |-> label, disabled |-> FALSE]

\* { disabled: true, value: "", label }
Placeholder(label) == [value |-> "", label |-> label, disabled |-> TRUE]

\* getSnapshotScenes, once the device is known.
SnapshotItems(device) ==
    LET scenes == SnapshotScenesOf(device.capabilities)
    IN IF Len(scenes) > 0 THEN MapItems(scenes)
       ELSE << Placeholder("No snapshots found...") >>

\* getDIYScenes of the action, once the client has returned the options.
DiyItems(options) ==
    LET scenes == MapItems(SortByName(options))
    IN IF Len(scenes) > 0 THEN scenes ELSE << Placeholder("No scenes found") >>

\* The catch of both: the items of a lookup that failed.
FailedItems == << Placeholder("Failed to load scenes") >>

SceneKinds == {"snapshotScenes", "diyScenes"}
KeyKinds == {"snapshotKey", "diyKey", "megaKey"}

\* Every listing asks the remote.
ListsRemotelyAll(kind) == TRUE

\* Whether the listing of the action asks the remote for the scenes
\* (goveeClient.getDIYScenes) or reads them from the device it has.
ListsRemotely(kind) == kind = "diyScenes"

\* The scene, or the brightness, a key press may carry in its settings.
KeyValues == { None, Some(0), Some(2) }

\* goveeClient.getDIYScenes(device), up to its first await.
GetDIYScenes(device) ==
    [NewTask(Call("getDIYScenes", device.device, 0)) EXCEPT
        !.pc = "scenesHeaders", !.device = DeviceIn(device)]

\* goveeClient.setSnapshotScene(device, sceneId) and setDIYScene(device,
\* sceneId), up to their first await: a control command with the capability.
SetScene(op, capability, device, sceneId) ==
    Control(NewTask(Call(op, device.device, sceneId)), DeviceIn(device), capability, sceneId)

\* goveeClient.setMegaValue(device, megaValue), up to its first await: the
\* control command of the brightness.
SetMegaValue(device, megaValue) ==
    Control(NewTask(Call("setMegaValue", device.device, megaValue)),
            DeviceIn(device), Brightness, megaValue)

\* goveeClient.turnOff(device), up to its first await.
TurnOff(device) ==
    Begin(NewTask(Call("turnOff", device.device, 0)), Call("turnOff", device.device, 0))

\* goveeClient.getDeviceOrThrow(deviceId), up to its first await.
LookUp(deviceId) ==
    Begin(NewTask(Call("getDeviceOrThrow", deviceId, 0)), Call("getDeviceOrThrow", deviceId, 0))

NoTasks == [t \in Tasks |-> IdleTask]
Quiet == handler.pc \in {"idle", "done"} /\ \A t \in Tasks : ~Active(t)

\* A request that clears the cache whether or not it asks for a refresh.
RefreshedCacheAlways(cache, isRefresh) == ClearedCache(cache)

\* onSendToPlugin: if (ev.payload.isRefresh) { goveeClient.clearCache(); }
RefreshedCache(cache, isRefresh) == IF isRefresh THEN ClearedCache(cache) ELSE cache

\* onSendToPlugin with the event getScenes, up to await ev.action.getSettings().
GetScenes(kind, isRefresh) ==
    /\ Quiet
    /\ devicesCache' = RefreshedCache(devicesCache, isRefresh)
    /\ sinceClear' = IF isRefresh THEN "cleared" ELSE sinceClear
    /\ tasks' = NoTasks
    /\ handler' = [IdleHandler EXCEPT !.kind = kind, !.pc = "settings",
                                      !.isRefresh = isRefresh,
                                      !.before = devicesCache]
    /\ UNCHANGED << failed, accepted >>
    /\ UNCHANGED << megaVars, globalSettings, colorVars >>

\* getSettings() has answered: sendSnapshotScenes / sendDiyScenes(action, deviceId)
\* up to the await of getDeviceOrThrow.
GotSettings(deviceId) ==
    /\ handler.pc = "settings"
    /\ IF deviceId = NoId
       THEN /\ handler' = [handler EXCEPT !.pc = "done"]
            /\ UNCHANGED << tasks, sinceClear >>
       ELSE /\ handler' = [handler EXCEPT !.pc = "device", !.deviceId = deviceId,
                                          !.cached = (devicesCache # None)]
            /\ tasks' = [tasks EXCEPT ![1] = LookUp(deviceId)]
            /\ sinceClear' = "called"
    /\ UNCHANGED << devicesCache, failed, accepted >>
    /\ UNCHANGED << megaVars, globalSettings, colorVars >>

\* onKeyDown of the scene actions, and of the Mega action (setMegaValue with
\* turnOn = true), up to the await of getDeviceOrThrow.
KeyDown(kind, deviceId, value) ==
    /\ Quiet
    /\ LET h == [IdleHandler EXCEPT !.kind = kind, !.deviceId = deviceId,
                    !.value = IF kind = "megaKey" /\ value = None
                              THEN Some(defaultMegaValue) ELSE value]
       IN IF deviceId = NoId \/ h.value = None
          THEN /\ handler' = [h EXCEPT !.pc = "done", !.glyph = "alert"]
               /\ tasks' = NoTasks
               /\ UNCHANGED sinceClear
          ELSE /\ handler' = [h EXCEPT !.pc = "device", !.cached = (devicesCache # None)]
               /\ tasks' = [NoTasks EXCEPT ![1] = LookUp(deviceId)]
               /\ sinceClear' = "called"
    /\ UNCHANGED << devicesCache, failed, accepted >>
    /\ UNCHANGED << megaVars, globalSettings, colorVars >>

\* The catch of a handler: action.showAlert(), and for a listing the items of
\* a failure.
Caught(h) ==
    [h EXCEPT !.pc = "done", !.glyph = "alert",
              !.items = IF h.kind \in SceneKinds THEN Some(FailedItems) ELSE @]

\* getDeviceOrThrow has ended: the handler goes on with the device.
GotDevice ==
    /\ handler.pc = "device"
    /\ tasks[1].pc = "done"
    /\ LET k == tasks[1]
           device == k.ret[1]
       IN IF k.err # ""
          THEN handler' = Caught(handler) /\ UNCHANGED tasks
          ELSE CASE handler.kind \in SceneKinds /\ ~ListsRemotely(handler.kind) ->
                        /\ handler' = [handler EXCEPT !.pc = "done",
                                            !.items = Some(SnapshotItems(device))]
                        /\ UNCHANGED tasks
                 [] handler.kind \in SceneKinds /\ ListsRemotely(handler.kind) ->
                        /\ handler' = [handler EXCEPT !.pc = "scenes"]
                        /\ tasks' = [tasks EXCEPT ![1] = GetDIYScenes(device)]
                 [] handler.kind = "snapshotKey" ->
                        /\ handler' = [handler EXCEPT !.pc = "control"]
                        /\ tasks' = [tasks EXCEPT ![1] =
                                SetScene("setSnapshotScene", SnapshotId, device, handler.value[1])]
                 [] handler.kind = "diyKey" ->
                        /\ handler' = [handler EXCEPT !.pc = "control"]
                        /\ tasks' = [tasks EXCEPT ![1] =
                                SetScene("setDIYScene", DiySceneId, device, handler.value[1])]
                 [] handler.kind = "megaKey" ->
                        \* the command is not awaited; action.isKey(): showOk()
                        /\ handler' = [handler EXCEPT !.pc = "done", !.glyph = "ok"]
                        /\ tasks' = [tasks EXCEPT ![2] =
                                IF handler.value[1] = 0 THEN TurnOff(device)
                                ELSE SetMegaValue(device, handler.value[1])]
    /\ UNCHANGED << devicesCache, sinceClear, failed, accepted >>
    /\ UNCHANGED << megaVars, globalSettings, colorVars >>

\* goveeClient.getDIYScenes has ended: the items are sent.
GotScenes ==
    /\ handler.pc = "scenes"
    /\ tasks[1].pc = "done"
    /\ handler' = IF tasks[1].err # "" THEN Caught(handler)
                  ELSE [handler EXCEPT !.pc = "done",
                                       !.items = Some(DiyItems(tasks[1].ret[1]))]
    /\ UNCHANGED clientVars
    /\ UNCHANGED << megaVars, globalSettings, colorVars >>

\* The awaited scene command has ended: ev.action.showOk(), or the catch.
GotControl ==
    /\ handler.pc = "control"
    /\ tasks[1].pc = "done"
    /\ handler' = IF tasks[1].err # "" THEN Caught(handler)
                  ELSE [handler EXCEPT !.pc = "done", !.glyph = "ok"]
    /\ UNCHANGED clientVars
    /\ UNCHANGED << megaVars, globalSettings, colorVars >>

ActionNext ==
    \/ \E kind \in SceneKinds, isRefresh \in BOOLEAN : GetScenes(kind, isRefresh)
    \/ \E deviceId \in DeviceIds \cup {NoId} : GotSettings(deviceId)
    \/ \E kind \in KeyKinds, deviceId \in DeviceIds \cup {NoId}, value \in KeyValues :
            KeyDown(kind, deviceId, value)
    \/ GotDevice
    \/ GotScenes
    \/ GotControl
    \/ \E t \in Tasks : SendDevices(t)
    \/ \E t \in Tasks : SendScenes(t)
    \/ \E t \in Tasks : SendControl(t)
    \/ \E t \in Tasks, e \in Envelopes, data \in Catalogues : ReceiveDevices(t, e, data)
    \/ \E t \in Tasks, e \in Envelopes, c \in DiyPayloads : ReceiveScenes(t, e, c)
    \/ \E t \in Tasks, e \in Envelopes : ReceiveControl(t, e)

ActionSpec == Init /\ [][ActionNext]_vars

-----------------------------------------------------------------------------
\* The Mega dial action and the debounce of its brightness update.

\* clamp(value, min, max) of ../math.
Clamp(value, min, max) == IF value < min THEN min ELSE IF value > max THEN max ELSE value

\* The ticks a rotation event may carry.
Ticks == {-1, 1, 2}

\* A closure that passes the default brightness, not the one the dial shows.
RotateActionDefault(s) ==
    [settings |-> s, deviceId |-> s.deviceId, value |-> defaultMegaValue]

\* onDialRotate's closure over the event's settings s:
\*   const { deviceId, megaValue: value } = settings;
\*   () => { this.setFeedback(action, settings, 0.2);
\*           this.setMegaValue(action, deviceId, value, false); }
RotateAction(s) ==
    [settings |-> s, deviceId |-> s.deviceId, value |-> s.megaValue[1]]

\* One key for every action.
DebounceKeyShared(a) == "dial1"

\* The key of an action's debounce entry: action.id
DebounceKey(a) == a

\* A debounce that leaves a pending entry as it is.
DebounceKeepFirst(pending, key, action) ==
    IF pending[key] # None THEN pending
    ELSE [pending EXCEPT ![key] = Some([action |-> action, left |-> DebounceTicks])]

\* debounce(key, action) of ../debounce: a pending entry of the key is replaced
\* and the window starts again.
Debounce(pending, key, action) ==
    [pending EXCEPT ![key] = Some([action |-> action, left |-> DebounceTicks])]

\* clearDebounce(key) of ../debounce: the pending entry of the key, if any, is
\* removed and its action is not run.
ClearDebounce(pending, key) == [pending EXCEPT ![key] = None]

\* A press that leaves the pending update where it is.
PressPendingKept(pending, a) == pending

\* togglePowerState's first statement: clearDebounce(action.id)
PressPending(pending, a) == ClearDebounce(pending, DebounceKey(a))

\* A rotation that adds the ticks and leaves the range unchecked.
NextMegaValueUnclamped(s, ticks) == MegaValueOf(s) + ticks * 5

\* clamp((settings.megaValue ?? defaultMegaValue) + ticks * 5, 5, 100)
NextMegaValue(s, ticks) == Clamp(MegaValueOf(s) + ticks * 5, 5, 100)

\* onDialRotate up to its first await: the new brightness is computed from the
\* event's settings and persisted (action.setSettings).
DialRotate(a, ticks) ==
    /\ rotated + Len(toggles) < MaxRotations
    /\ rotated' = rotated + 1
    /\ LET megaValue == NextMegaValue(settings[a], ticks)
       IN /\ settings' = [settings EXCEPT ![a].megaValue = Some(megaValue)]
          /\ rotations' = [rotations EXCEPT ![a] = Append(@, settings'[a])]
    /\ UNCHANGED << feedback, timers, updates, bursts, toggles, commands >>
    /\ UNCHANGED outsideMega

\* onDialRotate after its awaits: the feedback shows the value at full opacity
\* and the brightness update is debounced under the key action.id.
DialRotateDebounce(a) ==
    /\ rotations[a] # <<>>
    /\ LET s == Head(rotations[a])
       IN /\ feedback' = [feedback EXCEPT ![a] = Feedback(s, 10)]
          /\ timers' = Debounce(timers, DebounceKey(a), RotateAction(s))
          /\ bursts' = [bursts EXCEPT ![a] =
                [@ EXCEPT !.calls = @ + 1, !.last = s.megaValue[1], !.waited = 0,
                          !.started = IF timers[a] = None THEN @ + 1 ELSE @,
                          !.serial = @ + 1]]
    /\ rotations' = [rotations EXCEPT ![a] = Tail(@)]
    /\ UNCHANGED << settings, updates, rotated, toggles, commands >>
    /\ UNCHANGED outsideMega

\* The clock advances by one tick.
Tick ==
    /\ \E a \in Dials : timers[a] # None /\ timers[a][1].left > 0
    /\ timers' = [a \in Dials |->
            IF timers[a] # None /\ timers[a][1].left > 0
            THEN Some([timers[a][1] EXCEPT !.left = @ - 1])
            ELSE timers[a]]
    /\ bursts' = [a \in Dials |->
            IF timers[a] # None /\ bursts[a].waited < DebounceTicks
            THEN [bursts[a] EXCEPT !.waited = @ + 1]
            ELSE bursts[a]]
    /\ UNCHANGED << settings, feedback, rotations, updates, rotated, toggles, commands >>
    /\ UNCHANGED outsideMega

\* The timer of a key elapses: the entry is removed and its action runs, which
\* dims the feedback and calls setMegaValue(action, deviceId, value, false).
TimerFire(a) ==
    /\ timers[a] # None
    /\ timers[a][1].left = 0
    /\ timers' = [timers EXCEPT ![a] = None]
    /\ feedback' = [feedback EXCEPT ![a] = Feedback(timers[a][1].action.settings, 2)]
    /\ updates' = Append(updates,
            [key |-> a, deviceId |-> timers[a][1].action.deviceId,
             value |-> timers[a][1].action.value, turnOn |-> FALSE,
             calls |-> bursts[a].calls, last |-> bursts[a].last,
             waited |-> bursts[a].waited, serial |-> bursts[a].serial,
             pc |-> "device", power |-> None])
    /\ bursts' = [bursts EXCEPT ![a].calls = 0]
    /\ UNCHANGED << settings, rotations, rotated, toggles, commands >>
    /\ UNCHANGED outsideMega

\* onDialDown and onTouchTap: togglePowerState(ev.action, ev.payload.settings)
\* up to its first await.  The pending brightness update of the action is
\* cleared and the power toggle of the device of the settings begins.
DialDown(a) ==
    /\ rotated + Len(toggles) < MaxRotations
    /\ timers' = PressPending(timers, a)
    /\ toggles' = Append(toggles,
            [key |-> a, deviceId |-> settings[a].deviceId,
             value |-> MegaValueOf(settings[a]),
             pending |-> IF timers[a] = None THEN 0 ELSE bursts[a].serial,
             elsewhere |-> { b \in Dials \ {a} : timers[b] # None },
             received |-> bursts[a].serial + Len(rotations[a]),
             pc |-> "device", power |-> None])
    /\ bursts' = [bursts EXCEPT ![a] =
            IF timers[a] = None THEN @
            ELSE [@ EXCEPT !.calls = 0, !.cancelled = @ \cup {bursts[a].serial}]]
    /\ UNCHANGED << settings, feedback, rotations, updates, rotated, commands >>
    /\ UNCHANGED outsideMega

MegaNext ==
    \/ \E a \in Dials, ticks \in Ticks : DialRotate(a, ticks)
    \/ \E a \in Dials : DialRotateDebounce(a)
    \/ Tick
    \/ \E a \in Dials : TimerFire(a)
    \/ \E a \in Dials : DialDown(a)

MegaSpec == Init /\ [][MegaNext]_vars

-----------------------------------------------------------------------------
\* The Mega handlers at the client: Mega.setMegaValue and togglePowerState
\* after their first statement.

\* What goveeClient.getPowerState(device) may come back with: it throws, or
\* resolves to the power value the device reports (undefined when it reports
\* none).
PowerStates == { None, Some(0), Some(1) }
PowerOutcomes ==
    { [threw |-> TRUE, value |-> None] }
    \cup { [threw |-> FALSE, value |-> p] : p \in PowerStates }

\* A brightness update that goes ahead whatever the power state is.
SkipsUpdateNever(turnOn, power) == FALSE

\* setMegaValue: if (!turnOn && (await goveeClient.getPowerState(device)) === 0) return
SkipsUpdate(turnOn, power) == ~turnOn /\ power = Some(0)

\* The control command of goveeClient.setMegaValue(device, megaValue).
BrightnessCommand(id, megaValue) ==
    Request("/device/control", DeviceOf(id), Brightness, megaValue)

\* The control command of goveeClient.turnOff(device).
TurnOffCommand(id) == Request("/device/control", DeviceOf(id), PowerSwitch, 0)

\* The command as one of the handlers sent it: by the run of the debounced
\* update ("update") or by the press or tap ("toggle") of that index.
Sent(by, index, key, request) ==
    [by |-> by, index |-> index, key |-> key, request |-> request]

\* Mega.setMegaValue(action, deviceId, megaValue, turnOn) once getDeviceOrThrow
\* has answered: an absent device is caught (showAlert); the value 0 turns the
\* device off; a call with turnOn goes ahead, one without reads the power state.
UpdateDevice(i, found) ==
    /\ i \in 1..Len(updates)
    /\ updates[i].pc = "device"
    /\ LET u == updates[i]
       IN IF ~found
          THEN /\ updates' = [updates EXCEPT ![i].pc = "alert"]
               /\ UNCHANGED commands
          ELSE IF u.value = 0
          THEN /\ updates' = [updates EXCEPT ![i].pc = "sent"]
               /\ commands' = Append(commands,
                        Sent("update", i, u.key, TurnOffCommand(u.deviceId)))
          ELSE IF u.turnOn
          THEN /\ updates' = [updates EXCEPT ![i].pc = "sent"]
               /\ commands' = Append(commands,
                        Sent("update", i, u.key, BrightnessCommand(u.deviceId, u.value)))
          ELSE /\ updates' = [updates EXCEPT ![i].pc = "power"]
               /\ UNCHANGED commands
    /\ UNCHANGED << settings, feedback, rotations, timers, rotated, bursts, toggles >>
    /\ UNCHANGED outsideMega

\* Mega.setMegaValue once getPowerState has answered: the update of a device
\* that is off returns, any other sends the brightness.
UpdatePower(i, outcome) ==
    /\ i \in 1..Len(updates)
    /\ updates[i].pc = "power"
    /\ LET u == updates[i]
       IN IF outcome.threw
          THEN /\ updates' = [updates EXCEPT ![i].pc = "alert"]
               /\ UNCHANGED commands
          ELSE IF SkipsUpdate(u.turnOn, outcome.value)
          THEN /\ updates' = [updates EXCEPT ![i].pc = "returned",
                                             ![i].power = Some(outcome.value)]
               /\ UNCHANGED commands
          ELSE /\ updates' = [updates EXCEPT ![i].pc = "sent",
                                             ![i].power = Some(outcome.value)]
               /\ commands' = Append(commands,
                        Sent("update", i, u.key, BrightnessCommand(u.deviceId, u.value)))
    /\ UNCHANGED << settings, feedback, rotations, timers, rotated, bursts, toggles >>
    /\ UNCHANGED outsideMega

\* togglePowerState once getDeviceOrThrow has answered.
ToggleDevice(j, found) ==
    /\ j \in 1..Len(toggles)
    /\ toggles[j].pc = "device"
    /\ toggles' = [toggles EXCEPT ![j].pc = IF found THEN "power" ELSE "alert"]
    /\ UNCHANGED << settings, feedback, rotations, timers, updates, rotated, bursts,
                    commands >>
    /\ UNCHANGED outsideMega

\* togglePowerState once getPowerState has answered: a device that is off is
\* set to the brightness of the settings, any other is turned off.
TogglePower(j, outcome) ==
    /\ j \in 1..Len(toggles)
    /\ toggles[j].pc = "power"
    /\ LET g == toggles[j]
       IN IF outcome.threw
          THEN /\ toggles' = [toggles EXCEPT ![j].pc = "alert"]
               /\ UNCHANGED commands
          ELSE /\ toggles' = [toggles EXCEPT ![j].pc = "sent",
                                             ![j].power = Some(outcome.value)]
               /\ commands' = Append(commands,
                        Sent("toggle", j, g.key,
                             IF outcome.value = Some(0)
                             THEN BrightnessCommand(g.deviceId, g.value)
                             ELSE TurnOffCommand(g.deviceId)))
    /\ UNCHANGED << settings, feedback, rotations, timers, updates, rotated, bursts >>
    /\ UNCHANGED outsideMega

\* The dial whose handlers are followed to the client.
PowerDials == {"dial1"}

PowerNext ==
    \/ \E a \in PowerDials, ticks \in Ticks : DialRotate(a, ticks)
    \/ \E a \in PowerDials : DialRotateDebounce(a)
    \/ Tick
    \/ \E a \in PowerDials : TimerFire(a)
    \/ \E a \in PowerDials : DialDown(a)
    \/ \E i \in 1..MaxRotations, found \in BOOLEAN : UpdateDevice(i, found)
    \/ \E i \in 1..MaxRotations, outcome \in PowerOutcomes : UpdatePower(i, outcome)
    \/ \E j \in 1..MaxRotations, found \in BOOLEAN : ToggleDevice(j, found)
    \/ \E j \in 1..MaxRotations, outcome \in PowerOutcomes : TogglePower(j, outcome)

PowerSpec == Init /\ [][PowerNext]_vars

\* The dial turned by any number of ticks, from any persisted brightness.

\* The largest number of ticks one rotation event carries.
MaxTicks == 20

\* The ticks of a rotation event: one tick either way and the largest turns.
TickCounts == { -MaxTicks, -1, 1, MaxTicks }

\* The persisted brightness the dial may start from: unset, or within 5..100.
StartValues == { None, Some(5), Some(7), Some(100) }

RotateInit == \E megaValue \in StartValues : Start(megaValue)

RotateNext ==
    \/ \E a \in PowerDials, ticks \in TickCounts : DialRotate(a, ticks)
    \/ \E a \in PowerDials : DialRotateDebounce(a)
    \/ Tick
    \/ \E a \in PowerDials : TimerFire(a)
    \/ \E i \in 1..MaxRotations, found \in BOOLEAN : UpdateDevice(i, found)
    \/ \E i \in 1..MaxRotations, outcome \in PowerOutcomes : UpdatePower(i, outcome)

RotateSpec == RotateInit /\ [][RotateNext]_vars

-----------------------------------------------------------------------------
\* getColorFromHex: the color string of the property inspector as a number.
\* A string is a sequence of characters.

\* The characters a color string is typed from.
HexChars == {"#", "1", "a", "F", "g"}

\* The hexadecimal digits by value, in lower and in upper case.
LowerDigits ==
    << "0", "1", "2", "3", "4", "5", "6", "7", "8", "9", "a", "b", "c", "d", "e", "f" >>
UpperDigits ==
    << "0", "1", "2", "3", "4", "5", "6", "7", "8", "9", "A", "B", "C", "D", "E", "F" >>

\* [a-f\d] without the flag i.
IsHexDigitLower(ch) == \E i \in 1..16 : LowerDigits[i] = ch

\* [a-f\d] under the flag i: a digit, or a letter a to f in either case.
IsHexDigit(ch) == \E i \in 1..16 : LowerDigits[i] = ch \/ UpperDigits[i] = ch

\* /^#?([a-f\d]{2})([a-f\d]{2})([a-f\d]{2})$/i.exec(color): the three groups,
\* or null (None).
ExecColor(str) ==
    LET body == IF Len(str) > 0 /\ str[1] = "#" THEN Tail(str) ELSE str
    IN IF Len(body) = 6 /\ \A i \in 1..6 : IsHexDigit(body[i])
       THEN Some(<< SubSeq(body, 1, 2), SubSeq(body, 3, 4), SubSeq(body, 5, 6) >>)
       ELSE None

\* parseInt(group, 16) of a group of hexadecimal digits.
RECURSIVE ParseInt16(_)
ParseInt16(group) ==
    IF group = <<>> THEN 0
    ELSE LET ch == group[Len(group)]
             digit == CHOOSE i \in 1..16 : LowerDigits[i] = ch \/ UpperDigits[i] = ch
         IN 16 * ParseInt16(SubSeq(group, 1, Len(group) - 1)) + (digit - 1)

\* The operators & and | on non-negative numbers, bit by bit.
RECURSIVE BitAnd(_, _)
BitAnd(a, b) ==
    IF a = 0 \/ b = 0 THEN 0
    ELSE 2 * BitAnd(a \div 2, b \div 2) + (IF a % 2 = 1 /\ b % 2 = 1 THEN 1 ELSE 0)
RECURSIVE BitOr(_, _)
BitOr(a, b) ==
    IF a = 0 THEN b ELSE IF b = 0 THEN a
    ELSE 2 * BitOr(a \div 2, b \div 2) + (IF a % 2 = 1 \/ b % 2 = 1 THEN 1 ELSE 0)

\* a << n and a >> n on 32-bit integers, for a that is not negative.  A bit
\* that reaches position 31 is the sign; the client shifts a byte by at most
\* 16 places, so none does and the shift ends there.
RECURSIVE ShiftLeft(_, _)
ShiftLeft(a, n) ==
    IF n = 0 THEN a
    ELSE LET low == 2 * (a % 1073741824)
             top == (a \div 1073741824) % 2
         IN IF top = 1 THEN (low - 2147483647) - 1
            ELSE ShiftLeft(low, n - 1)
RECURSIVE ShiftRight(_, _)
ShiftRight(a, n) == IF n = 0 THEN a ELSE ShiftRight(a \div 2, n - 1)

\* What a call gives: the value it returns, or the error it throws.
Returned(value) == [err |-> "", ret |-> Some(value)]
Thrown(error) == [err |-> error, ret |-> None]

\* getColorFromHex(color)
GetColorFromHex(str) ==
    LET values == ExecColor(str)
    IN IF values = None THEN Thrown("Invalid color")
       ELSE Returned(
                BitOr(BitOr(ShiftLeft(BitAnd(ParseInt16(values[1][1]), 255), 16),
                            ShiftLeft(BitAnd(ParseInt16(values[1][2]), 255), 8)),
                      ShiftLeft(BitAnd(ParseInt16(values[1][3]), 255), 0)))

\* The user types one more character of the color.
TypeHex(ch) ==
    /\ color = None
    /\ Len(hex) < MaxHexLen
    /\ hex' = Append(hex, ch)
    /\ UNCHANGED color
    /\ UNCHANGED << clientVars, megaVars, globalSettings, handler >>

\* The action converts the color it was given.
ConvertColor ==
    /\ color = None
    /\ color' = Some(GetColorFromHex(hex))
    /\ UNCHANGED hex
    /\ UNCHANGED << clientVars, megaVars, globalSettings, handler >>

ColorNext ==
    \/ \E ch \in HexChars : TypeHex(ch)
    \/ ConvertColor

ColorSpec == Init /\ [][ColorNext]_vars

\* The runs of the debounced action of a key.
RunsOf(a) == { i \in 1..Len(updates) : updates[i].key = a }

-----------------------------------------------------------------------------
\* What the claims observe of a call.

\* The requests of a call to one endpoint.
RequestsTo(task, endpoint) ==
    { i \in 1..Len(task.reqs) : task.reqs[i].endpoint = endpoint }

\* Whether a response of the call broke the envelope contract.
BadEnvelope(task) == \E i \in 1..Len(task.resps) : ~EnvelopeOk(task.resps[i])

\* The power values a state payload reports: powerSwitch/on_off with a state.
ReportedPower(capabilities) ==
    { capabilities[i].state[1] : i \in
        { j \in 1..Len(capabilities) :
            /\ capabilities[j].instance = PowerSwitch.instance
            /\ capabilities[j].type = PowerSwitch.type
            /\ capabilities[j].state # None } }

\* Whether the device list holds a device of this id.
Listed(devices, id) == \E i \in 1..Len(devices) : devices[i].device = id

\* Whether the device advertises the capability in its inventory entry.
Advertises(id, capability) ==
    \E i \in 1..Len(MetadataOf(id).capabilities) :
        /\ MetadataOf(id).capabilities[i].instance = capability.instance
        /\ MetadataOf(id).capabilities[i].type = capability.type

-----------------------------------------------------------------------------
\* C1: when the calls do not overlap and no response has failed, a call of
\* getDevices() sends a request for the inventory exactly when it is the first
\* such call, or the first since the last clearCache(); any other call sends
\* none and returns the list the cache holds.
C1_FetchOnlyOnFirstCall ==
    ~failed =>
        \A t \in Tasks :
            LET k == tasks[t]
            IN (k.pc # "idle" /\ UsesDevices(k)) =>
                /\ k.pc = "devicesHeaders" => k.first
                /\ k.pc # "devicesHeaders" =>
                        Cardinality(RequestsTo(k, "/user/devices")) = (IF k.first THEN 1 ELSE 0)
                /\ (k.op = "getDevices" /\ k.pc = "done" /\ ~k.first /\ ~k.cleared) =>
                        /\ devicesCache # None
                        /\ k.ret = Some(devicesCache[1])

\* A call after the first returned the cached list of two devices without a request.
C1_Witness ==
    /\ ~failed
    /\ tasks[1].op = "getDevices" /\ tasks[1].pc = "done"
    /\ ~tasks[1].first /\ tasks[1].reqs = <<>>
    /\ tasks[1].ret = Some(<< Light, Socket >>)

\* C2: the first getDevices() call to start after clearCache() sends a request
\* for the inventory, whatever else is in flight.
C2_FreshAfterClear ==
    \A t \in Tasks :
        (tasks[t].afterClear /\ tasks[t].pc # "devicesHeaders") =>
            Cardinality(RequestsTo(tasks[t], "/user/devices")) = 1

\* C3: getDevices() calls that fetched during the same miss, with no
\* clearCache() since either started, return the same list, the one in the cache.
C3_OverlappingCallsAgree ==
    \A t, u \in Tasks :
        LET k == tasks[t]
            l == tasks[u]
        IN (/\ k.op = "getDevices" /\ k.pc = "done" /\ k.err = "" /\ k.got # None
            /\ l.op = "getDevices" /\ l.pc = "done" /\ l.err = "" /\ l.got # None
            /\ ~k.cleared /\ ~l.cleared) =>
                /\ k.ret = l.ret
                /\ k.ret = devicesCache

\* Two overlapping calls were answered with different lists.
C3_Witness ==
    \E t, u \in Tasks :
        /\ tasks[t].op = "getDevices" /\ tasks[t].pc = "done" /\ tasks[t].err = ""
        /\ tasks[u].op = "getDevices" /\ tasks[u].pc = "done" /\ tasks[u].err = ""
        /\ ~tasks[t].cleared /\ ~tasks[u].cleared
        /\ tasks[t].got # None /\ tasks[u].got # None
        /\ tasks[t].got # tasks[u].got

\* C4: the cache is absent or holds the whole list of one inventory response
\* that satisfied the envelope contract.
C4_CacheWhole ==
    devicesCache = None \/ devicesCache[1] \in accepted

\* The cache holds one of two accepted lists while another response has failed.
C4_Witness ==
    /\ devicesCache = Some(<< Light, Socket >>)
    /\ accepted = Inventories
    /\ failed

\* The operations that send one request and have no other way to fail.
EnvelopeOnlyOps ==
    {"getDevices", "getDevice", "getDeviceState", "setBrightness", "setColor",
     "setColorTemperature", "turnOn", "turnOff"}

\* C5 as stated: a call that has received a response fails exactly when a
\* response had a status other than 200, or a code that is present and not 200.
C5_FailsIffEnvelopeBad ==
    \A t \in Tasks :
        (tasks[t].pc = "done" /\ tasks[t].resps # <<>>) =>
            (tasks[t].err # "" <=> BadEnvelope(tasks[t]))

\* C5 as amended: a response that breaks the envelope contract ends the call
\* with an error and nothing more is sent; getDevices, getDevice,
\* getDeviceState, setBrightness, setColor, setColorTemperature, turnOn and
\* turnOff fail only then.
C5_EnvelopeDecides ==
    \A t \in Tasks :
        LET k == tasks[t]
        IN /\ BadEnvelope(k) =>
                /\ k.pc = "done" /\ k.err # "" /\ k.ret = None
                /\ ~EnvelopeOk(k.resps[Len(k.resps)])
                /\ Len(k.reqs) = Len(k.resps)
           /\ (k.pc = "done" /\ k.resps # <<>> /\ k.op \in EnvelopeOnlyOps) =>
                (k.err # "" <=> BadEnvelope(k))

\* getLightScenes raised although both of its responses satisfied the contract.
C5_Witness ==
    /\ tasks[1].op = "getLightScenes" /\ tasks[1].pc = "done"
    /\ tasks[1].err # "" /\ Len(tasks[1].resps) = 2 /\ ~BadEnvelope(tasks[1])

\* C6: togglePowerState, once the state query has reported the power value v,
\* sends one command, powerSwitch/on_off with 1 - v, and sends it after the query.
C6_ToggleInverts ==
    \A t \in Tasks :
        LET k == tasks[t]
        IN (k.op = "togglePowerState" /\ k.state # None) =>
            \A v \in ReportedPower(k.state[1]) :
                /\ k.pc \in {"controlHeaders", "controlWait", "done"}
                /\ k.reqs[1] = Request("/device/state", DeviceOf(k.id), NoCapability, 0)
                /\ k.pc = "controlHeaders" => Len(k.reqs) = 1
                /\ k.pc # "controlHeaders" =>
                        /\ Len(k.reqs) = 2
                        /\ k.reqs[2] = Request("/device/control", DeviceOf(k.id), PowerSwitch, 1 - v)

\* A device reported on was switched off, and one reported off was switched on.
C6_Witness ==
    /\ tasks[1].op = "togglePowerState" /\ tasks[1].pc = "done" /\ tasks[1].err = ""
    /\ ReportedPower(tasks[1].state[1]) = {1}
    /\ tasks[1].reqs[2].value = 0

\* C7: togglePowerState sends no command and raises when the state payload
\* reports no power value (no powerSwitch/on_off capability, or one without a
\* state); it sends no command either when the state query fails validation.
C7_ToggleUnsupported ==
    \A t \in Tasks :
        LET k == tasks[t]
        IN (k.op = "togglePowerState" /\ k.resps # <<>>) =>
            /\ ~EnvelopeOk(k.resps[1]) =>
                    /\ k.pc = "done" /\ k.err # ""
                    /\ RequestsTo(k, "/device/control") = {}
            /\ (EnvelopeOk(k.resps[1]) /\ k.state # None /\ ReportedPower(k.state[1]) = {}) =>
                    /\ k.pc = "done"
                    /\ k.err = "Device does not support switching power state"
                    /\ RequestsTo(k, "/device/control") = {}

\* The state payload held a power switch without a state and the call raised.
C7_Witness ==
    /\ tasks[1].op = "togglePowerState" /\ tasks[1].pc = "done"
    /\ tasks[1].state = Some(<< Capability(PowerSwitch, None, <<>>) >>)
    /\ tasks[1].err = "Device does not support switching power state"
    /\ Len(tasks[1].reqs) = 1

\* C8: every control command names a capability that its device advertises in
\* the inventory.
C8_CommandsAdvertised ==
    \A t \in Tasks :
        \A i \in RequestsTo(tasks[t], "/device/control") :
            Advertises(tasks[t].reqs[i].device.device, tasks[t].reqs[i].capability)

\* C9: for an id that the inventory does not list, getDevice returns undefined
\* without an error; getDeviceOrThrow, getLightScenes and setLightScene raise
\* "Device not found." and send no scene or control request.
C9_UnknownDevice ==
    \A t \in Tasks :
        LET k == tasks[t]
        IN (/\ k.op \in IdOps
            /\ \/ k.id = NoId
               \/ k.devices # None /\ ~Listed(k.devices[1], k.id)) =>
                /\ k.pc = "done"
                /\ RequestsTo(k, "/device/scenes") = {}
                /\ RequestsTo(k, "/device/control") = {}
                /\ k.op = "getDevice" => (k.err = "" /\ k.ret = Some(None))
                /\ k.op # "getDevice" => (k.err = "Device not found." /\ k.ret = None)

\* setLightScene was called for the socket while the inventory listed the light only.
C9_Witness ==
    /\ tasks[1].op = "setLightScene" /\ tasks[1].id = "d2" /\ tasks[1].pc = "done"
    /\ tasks[1].devices = Some(<< Light >>)
    /\ tasks[1].err = "Device not found."

\* C10: the schedule calls of a key that arrive while its entry is pending make
\* one burst; every burst that is not cancelled runs its action once, the
\* action run is the one of the last call, and it runs when a whole window has
\* passed since that call.
C10_BurstRunsLastOnce ==
    /\ \A a \in Dials :
            bursts[a].started = Cardinality(RunsOf(a)) + Cardinality(bursts[a].cancelled)
                                    + (IF timers[a] # None THEN 1 ELSE 0)
    /\ \A i \in 1..Len(updates) :
            /\ updates[i].calls >= 1
            /\ updates[i].value = updates[i].last
            /\ updates[i].waited = DebounceTicks

\* Three rotations of one dial in one window ran one update, with the third value.
C10_Witness ==
    /\ rotated = 3
    /\ Len(updates) = 1
    /\ updates[1].calls = 3
    /\ updates[1].value = 40
    /\ \A a \in Dials : timers[a] = None /\ rotations[a] = <<>>

\* C11: an update that was pending for a key when a dial press or touch tap of
\* that key began is never run afterwards: no run of the debounced action
\* belongs to a schedule call whose entry the press found pending.
C11_CancelledNeverRuns ==
    \A i \in 1..Len(updates) :
        /\ updates[i].serial \notin bursts[updates[i].key].cancelled
        /\ \A j \in 1..Len(toggles) :
                toggles[j].key = updates[i].key => toggles[j].pending # updates[i].serial

\* A press found the first update of dial1 pending; the only update that ran is
\* the one of a rotation after the press.
C11_Witness ==
    /\ Len(toggles) = 1 /\ toggles[1].key = "dial1" /\ toggles[1].pending = 1
    /\ Len(updates) = 1 /\ updates[1].key = "dial1" /\ updates[1].serial = 2
    /\ \A a \in Dials : timers[a] = None

\* C12: scheduling or cancelling under one key leaves the entry of every other
\* key (action and time left) as it is, and every schedule call of a key is
\* run at most once, each key being accounted for by its own runs, cancels
\* and pending entry.
C12_KeysIndependent ==
    /\ [][\A a \in Dials :
            (DialRotateDebounce(a) \/ DialDown(a)) =>
                \A b \in Dials \ {a} : timers'[b] = timers[b]]_vars
    /\ [](\A a \in Dials :
            /\ \A i, j \in RunsOf(a) : updates[i].serial = updates[j].serial => i = j
            /\ bursts[a].started = Cardinality(RunsOf(a)) + Cardinality(bursts[a].cancelled)
                                        + (IF timers[a] # None THEN 1 ELSE 0))

\* While the update of dial2 was pending, dial1 was rotated and pressed; the
\* update of dial2 ran once, and nothing of dial1 ran.
C12_Witness ==
    /\ Len(toggles) = 1 /\ toggles[1].key = "dial1" /\ toggles[1].pending = 1
    /\ toggles[1].elsewhere = {"dial2"}
    /\ Len(updates) = 1 /\ updates[1].key = "dial2" /\ updates[1].calls = 1
    /\ \A a \in Dials : timers[a] = None

\* What a listing looked up: the device getDeviceOrThrow returned to it.
Found(h) ==
    IF h.kind \in SceneKinds /\ h.pc = "done" /\ h.deviceId # NoId
       /\ tasks[1].op = "getDeviceOrThrow" /\ tasks[1].err = ""
    THEN tasks[1].ret ELSE None

\* C13: the listing of snapshot scenes sends no /device/scenes request; when
\* the cache held the inventory as the lookup began it sends no request at
\* all; and the scenes it lists are options of the snapshot capability of the
\* device the cache holds.
C13_SnapshotsFromMetadata ==
    handler.kind = "snapshotScenes" =>
        /\ \A t \in Tasks :
                /\ RequestsTo(tasks[t], "/device/scenes") = {}
                /\ handler.cached => tasks[t].reqs = <<>>
        /\ Found(handler) # None =>
                /\ devicesCache # None
                /\ FindDevice(devicesCache[1], handler.deviceId) = Found(handler)
                /\ \A i \in 1..Len(handler.items[1]) :
                        \/ handler.items[1][i].disabled
                        \/ \E j \in 1..Len(SnapshotScenesOf(Found(handler)[1].capabilities)) :
                                handler.items[1][i] =
                                    Item(SnapshotScenesOf(Found(handler)[1].capabilities)[j])

\* The two snapshots of the light were listed from the cache, without a request.
C13_Witness ==
    /\ handler.kind = "snapshotScenes" /\ handler.pc = "done" /\ handler.cached
    /\ handler.deviceId = "d1"
    /\ Len(handler.items[1]) = 2 /\ ~handler.items[1][1].disabled
    /\ \A t \in Tasks : tasks[t].reqs = <<>>

\* C14: the items listed for a device whose snapshot capability has options
\* are those options, one item each, in ascending order of their names.
C14_SnapshotsSortedByName ==
    (handler.kind = "snapshotScenes" /\ Found(handler) # None
        /\ SnapshotScenesOf(Found(handler)[1].capabilities) # <<>>) =>
            handler.items =
                Some(MapItems(SortByName(SnapshotScenesOf(Found(handler)[1].capabilities))))

\* Whether the listing came out empty, or failed.
EmptyOrFailed(h) ==
    \/ tasks[1].err # ""
    \/ /\ tasks[1].op = "getDeviceOrThrow"
       /\ SnapshotScenesOf(tasks[1].ret[1].capabilities) = <<>>
    \/ /\ tasks[1].op = "getDIYScenes"
       /\ tasks[1].ret = Some(<<>>)

\* C15: a getScenes request of the DIY or snapshot scene action with a device
\* selected sends items; when the listing is empty or fails they are one item,
\* disabled and with an empty value, and a failure shows the alert and goes no
\* further.
C15_OnePlaceholder ==
    (handler.kind \in SceneKinds /\ handler.pc = "done" /\ handler.deviceId # NoId) =>
        /\ handler.items # None
        /\ EmptyOrFailed(handler) =>
                /\ Len(handler.items[1]) = 1
                /\ handler.items[1][1].disabled
                /\ handler.items[1][1].value = ""
        /\ ~EmptyOrFailed(handler) =>
                \A i \in 1..Len(handler.items[1]) : ~handler.items[1][i].disabled
        /\ tasks[1].err # "" => handler.glyph = "alert"

\* The listing of the DIY scenes failed at the remote and one disabled item was sent.
C15_Witness ==
    /\ handler.kind = "diyScenes" /\ handler.pc = "done"
    /\ tasks[1].op = "getDIYScenes" /\ tasks[1].err # ""
    /\ handler.items = Some(FailedItems)
    /\ handler.glyph = "alert"

\* The options of the lightScene/dynamic_scene capabilities of a payload.
LightSceneOptions(capabilities) ==
    { capabilities[i].options : i \in
        { j \in 1..Len(capabilities) :
            /\ capabilities[j].instance = LightSceneId.instance
            /\ capabilities[j].type = LightSceneId.type } }

\* C16: getLightScenes, for a known device and a listing that passed
\* validation, returns the options of the lightScene/dynamic_scene capability
\* of the payload wherever it stands in the list, and raises only when the
\* payload holds no such capability.
C16_ScenesAtAnyPosition ==
    \A t \in Tasks :
        LET k == tasks[t]
        IN (k.op = "getLightScenes" /\ k.pc = "done" /\ k.scenes # None) =>
            /\ LightSceneOptions(k.scenes[1]) # {} =>
                    /\ k.err = ""
                    /\ k.ret # None /\ k.ret[1] \in LightSceneOptions(k.scenes[1])
            /\ LightSceneOptions(k.scenes[1]) = {} =>
                    k.err = "Device does not support light scenes"

\* C17: every request carries in its headers the API key the global settings
\* held when its headers were made, also when the key changed between two
\* requests of one call.
C17_KeyFreshPerRequest ==
    \A t \in Tasks :
        /\ Len(tasks[t].headers) = Len(tasks[t].reqs)
        /\ \A i \in 1..Len(tasks[t].reqs) :
                tasks[t].headers[i].goveeApiKey = tasks[t].held[i]

\* The key was changed between the two requests of getLightScenes, and back
\* before the next call: each request carried the key of its moment.
C17_Witness ==
    /\ tasks[1].op = "getLightScenes" /\ Len(tasks[1].reqs) = 2
    /\ tasks[1].headers[1].goveeApiKey = "key2"
    /\ tasks[1].headers[2].goveeApiKey = "key1"
    /\ globalSettings.apiKey = "key2"

\* C19: an inventory response that fails validation makes the call raise and
\* leaves the cache as it was; the next call that needs the inventory then
\* finds the cache absent and goes to fetch it.
C19_FailureNotCached ==
    /\ [][\A t \in Tasks, e \in Envelopes, data \in Inventories :
            (ReceiveDevices(t, e, data) /\ ~EnvelopeOk(e)) =>
                /\ devicesCache' = devicesCache
                /\ tasks'[t].pc = "done" /\ tasks'[t].err # "" /\ tasks'[t].ret = None]_vars
    /\ [](\A t \in Tasks :
            (/\ tasks[t].pc = "done" /\ tasks[t].resps # <<>>
             /\ tasks[t].reqs[1].endpoint = "/user/devices"
             /\ ~EnvelopeOk(tasks[t].resps[1])) =>
                /\ devicesCache = None
                /\ Len(tasks[t].reqs) = 1 /\ tasks[t].err # "")
    /\ [][\A c \in Calls :
            (/\ tasks[1].op = "getDevices" /\ tasks[1].pc = "done"
             /\ BadEnvelope(tasks[1])
             /\ UsesDevices(c) /\ InvokeAlone(c)) =>
                /\ tasks'[1].pc = "devicesHeaders"
                /\ tasks'[1].ret = None]_vars

\* A call after one whose inventory response failed, with no clearCache()
\* between them, has sent a request for the inventory.
C19_Witness ==
    /\ tasks[1].op = "getDevices" /\ ~tasks[1].first
    /\ tasks[1].pc = "devicesWait" /\ Len(tasks[1].reqs) = 1
    /\ failed /\ accepted = {} /\ sinceClear = "called"

\* The value of a hexadecimal digit, whatever its case.
DigitValues ==
    [ch \in {"0", "1", "2", "3", "4", "5", "6", "7", "8", "9"} |->
        CASE ch = "0" -> 0 [] ch = "1" -> 1 [] ch = "2" -> 2 [] ch = "3" -> 3
          [] ch = "4" -> 4 [] ch = "5" -> 5 [] ch = "6" -> 6 [] ch = "7" -> 7
          [] ch = "8" -> 8 [] ch = "9" -> 9]
    @@ [ch \in {"a", "A"} |-> 10] @@ [ch \in {"b", "B"} |-> 11]
    @@ [ch \in {"c", "C"} |-> 12] @@ [ch \in {"d", "D"} |-> 13]
    @@ [ch \in {"e", "E"} |-> 14] @@ [ch \in {"f", "F"} |-> 15]

\* The digits of a color string: what follows the optional '#'.
DigitsOf(str) == IF Len(str) > 0 /\ str[1] = "#" THEN Tail(str) ELSE str

\* A string of an optional '#' and exactly six hexadecimal digits.
SixHexDigits(str) ==
    /\ Len(DigitsOf(str)) = 6
    /\ \A i \in 1..6 : DigitsOf(str)[i] \in DOMAIN DigitValues

\* The value of the n-th pair of digits.
PairValue(str, n) ==
    16 * DigitValues[DigitsOf(str)[2 * n - 1]] + DigitValues[DigitsOf(str)[2 * n]]

\* C18: for a string of an optional '#' and exactly six hexadecimal digits in
\* any case, getColorFromHex returns v with (v >> 16) & 0xFF, (v >> 8) & 0xFF
\* and v & 0xFF the values of the first, second and third pair of digits, and
\* 0 <= v <= 0xFFFFFF; for any other string it throws.
C18_ColorRoundTrips ==
    color # None =>
        IF SixHexDigits(hex)
        THEN /\ color[1].err = "" /\ color[1].ret # None
             /\ LET v == color[1].ret[1]
                IN /\ 0 <= v /\ v <= 16777215
                   /\ BitAnd(ShiftRight(v, 16), 255) = PairValue(hex, 1)
                   /\ BitAnd(ShiftRight(v, 8), 255) = PairValue(hex, 2)
                   /\ BitAnd(v, 255) = PairValue(hex, 3)
        ELSE color[1].err = "Invalid color" /\ color[1].ret = None

\* "#F11aaF" was converted to 0xF11AAF.
C18_Witness ==
    /\ hex = << "#", "F", "1", "1", "a", "a", "F" >>
    /\ color = Some(Returned(15801007))

\* The control command of a key press: the one the handler awaits, or for the
\* Mega key the one it started.
CommandOf(h) == IF h.kind = "megaKey" THEN tasks[2] ELSE tasks[1]

\* The OK glyph is up only when the command of the press has passed
\* validation, and once the handler has ended a command that failed it has
\* the alert glyph up.
GlyphFollowsCommand(kinds) ==
    handler.kind \in kinds =>
        LET k == CommandOf(handler)
        IN /\ handler.glyph = "ok" =>
                /\ RequestsTo(k, "/device/control") # {}
                /\ k.pc = "done" /\ k.err = ""
                /\ EnvelopeOk(k.resps[Len(k.resps)])
           /\ (/\ handler.pc = "done"
               /\ RequestsTo(k, "/device/control") # {} /\ k.pc = "done" /\ k.err # "") =>
                handler.glyph = "alert"

\* The part of C20 about the scene actions, which await their command.
SceneKeysFollowCommand == GlyphFollowsCommand({"snapshotKey", "diyKey"})

\* C20: for a key press on the Mega action as on the scene actions, the OK
\* glyph is shown only after the control command of the press has passed
\* validation, and a command that fails validation shows the alert glyph.
C20_GlyphFollowsCommand == GlyphFollowsCommand(KeyKinds)


-----------------------------------------------------------------------------
\* The commands the run i of the debounced update has sent.
CommandsOfUpdate(i) ==
    { k \in 1..Len(commands) : commands[k].by = "update" /\ commands[k].index = i }

\* C21: a brightness update that the dial's rotation triggered (the debounced
\* call, turnOn = false) sends its brightness command only after it has read a
\* power state that is not 0, and the command carries the update's device and
\* value; an update that read the power state 0 sends no control command.
C21_RotationNeverTurnsOn ==
    \A i \in 1..Len(updates) :
        ~updates[i].turnOn =>
            /\ \A k \in CommandsOfUpdate(i) :
                    commands[k].request.capability = Brightness =>
                        /\ updates[i].power # None
                        /\ updates[i].power[1] # Some(0)
                        /\ commands[k].request =
                              BrightnessCommand(updates[i].deviceId, updates[i].value)
            /\ updates[i].power = Some(Some(0)) => CommandsOfUpdate(i) = {}

\* One update found the device off and returned, another found it on and sent
\* the brightness.
C21_Witness ==
    \E i, k \in 1..Len(updates) :
        /\ ~updates[i].turnOn /\ updates[i].pc = "returned"
        /\ updates[i].power = Some(Some(0)) /\ CommandsOfUpdate(i) = {}
        /\ ~updates[k].turnOn /\ updates[k].pc = "sent"
        /\ updates[k].power = Some(Some(1)) /\ CommandsOfUpdate(k) # {}

-----------------------------------------------------------------------------
\* A getScenes request of the DIY or snapshot scene action is being handled, or
\* was the last thing handled.
ScenesRequest == handler.kind \in SceneKinds

\* C22: a getScenes request to the DIY or snapshot scene action calls
\* clearCache() exactly when its isRefresh flag is set, and then before the
\* request looks any device up: the request begins with the cache empty and no
\* client call started, and its lookup finds nothing cached.  A request without
\* the flag leaves the cache as it is when it begins, and a populated cache
\* stays as it was for the whole request.
C22_ClearIffRefresh ==
    /\ [][(handler'.pc = "settings" /\ handler.pc # "settings") =>
            IF handler'.isRefresh
            THEN /\ devicesCache' = None
                 /\ sinceClear' = "cleared"
                 /\ tasks' = NoTasks
            ELSE UNCHANGED << devicesCache, sinceClear >>]_vars
    /\ [](ScenesRequest /\ handler.isRefresh =>
            IF handler.pc = "settings"
            THEN devicesCache = None /\ sinceClear = "cleared" /\ tasks = NoTasks
            ELSE ~handler.cached)
    /\ [](ScenesRequest /\ ~handler.isRefresh /\ handler.before # None =>
            devicesCache = handler.before)

\* A refresh request that began with a populated cache has looked its device
\* up in an empty cache and listed the scenes.
C22_Witness ==
    /\ ScenesRequest /\ handler.isRefresh
    /\ handler.before # None
    /\ handler.pc = "done" /\ handler.deviceId # NoId
    /\ ~handler.cached
    /\ handler.items # None

-----------------------------------------------------------------------------
\* The command k is the brightness of an update whose rotation the dial had
\* received before the press or tap that sent the command i began.
StaleAfter(i, k) ==
    /\ commands[i].by = "toggle"
    /\ commands[k].by = "update"
    /\ commands[k].key = commands[i].key
    /\ commands[k].request.capability = Brightness
    /\ updates[commands[k].index].serial <= toggles[commands[i].index].received

\* C23: once the handler of a press or tap has sent its power command, no
\* brightness command of an update that stems from a rotation received before
\* that press or tap is sent any more.
C23_NoStaleBrightnessAfterTap ==
    \A i, k \in 1..Len(commands) : i < k => ~StaleAfter(i, k)

-----------------------------------------------------------------------------
\* C24: whatever the ticks of the rotations, and whether the dial starts from no
\* persisted value or from one within 5..100, the persisted megaValue is
\* within 5..100 once set, each rotation sets it to the old value (25 when
\* unset) plus ticks * 5, clamped to 5..100, and every debounced update is
\* passed a value within 5..100, never 0: no update of a rotation turns the
\* device off.
C24_RotationKeepsRange ==
    /\ [][\A a \in PowerDials, ticks \in TickCounts :
            DialRotate(a, ticks) =>
                LET old == IF settings[a].megaValue = None THEN 25
                           ELSE settings[a].megaValue[1]
                    raw == old + ticks * 5
                IN settings'[a].megaValue =
                      Some(IF raw < 5 THEN 5 ELSE IF raw > 100 THEN 100 ELSE raw)]_vars
    /\ [](\A a \in Dials :
            /\ settings[a].megaValue # None => settings[a].megaValue[1] \in 5..100
            /\ timers[a] # None => timers[a][1].action.value \in 5..100)
    /\ [](\A i \in 1..Len(updates) :
            /\ updates[i].value \in 5..100
            /\ \A k \in CommandsOfUpdate(i) : commands[k].request.capability = Brightness)

\* A large turn down was clamped to 5 and its update sent the brightness 5;
\* a large turn up was then clamped to 100.
C24_Witness ==
    /\ Len(updates) >= 1
    /\ updates[1].value = 5 /\ updates[1].pc = "sent"
    /\ \E k \in CommandsOfUpdate(1) :
            commands[k].request = BrightnessCommand(updates[1].deviceId, 5)
    /\ settings["dial1"].megaValue = Some(100)
    /\ rotated >= 2
====
